---- MODULE Spec2Model ----
(***************************************************************************)
(* Model of roar.preprocessing.load_data (src/src/roar/preprocessing/      *)
(* load_data.py): the catalog builder load_data with its filename pattern, *)
(* the channel-mapping builder get_channel_mapping_dict, the channel       *)
(* normalizer load_h5_fix_channel_names, the scoped file access            *)
(* h5_with_fixed_channels and the single-channel reader load_h5_channel.   *)
(*                                                                         *)
(* A filename stem is a sequence of one-character strings.  An h5 file is  *)
(* a function from the names of its top-level channels to their content.   *)
(* A Python dict is a function whose DOMAIN is its key set.                *)
(***************************************************************************)
EXTENDS Integers, Sequences, FiniteSets, TLC

VARIABLES
    pc,              \* position of the running call
    h5_files,        \* load_data: the discovered files, by stem
    parsed,          \* load_data: the records built so far
    df,              \* load_data: the returned frame
    table,           \* get_channel_mapping_dict: rows of the reference table
    syn,             \* get_channel_mapping_dict: synonym column being read (1, 2)
    row,             \* get_channel_mapping_dict: rows of that column already read
    syn_dict,        \* get_channel_mapping_dict: the mapping under construction
    h5,              \* the measurement file on disk
    mapping,         \* the mapping handed to the normalizer
    mode,            \* h5_with_fixed_channels: the requested mode
    handle,          \* the h5py.File handle: "none", "open", "closed"
    keys_to_rename,  \* load_h5_fix_channel_names: keys still to be processed
    outcome,         \* per processed key: "renamed" or "skipped"
    target_seen,     \* per processed key: did its canonical name exist when it was processed
    h5_before,       \* the file before the first normalization pass
    h5_pass1,        \* the file after the first normalization pass
    pass,            \* number of the normalization pass (1, 2)
    channel_name,    \* load_h5_channel: the requested channel
    result           \* load_h5_channel: the returned pair

vars == <<pc, h5_files, parsed, df, table, syn, row, syn_dict, h5, mapping, mode,
          handle, keys_to_rename, outcome, target_seen, h5_before, h5_pass1, pass,
          channel_name, result>>

load_vars == <<h5_files, parsed, df>>
map_vars == <<table, syn, row, syn_dict>>
h5_vars == <<h5, mapping, mode, handle, keys_to_rename, outcome, target_seen,
             h5_before, h5_pass1, pass, channel_name, result>>

None == "None"

(***************************************************************************)
(* Bounds                                                                  *)
(***************************************************************************)
MaxMiddle == 3       \* tokens between the head and the tail of a generated stem
MaxFiles == 3        \* files discovered by one load_data call
MaxRows == 2         \* rows of the reference table of channel names
NumNames == 4        \* channel names; name i is the i-th in alphabetical order
MaxKeys == 2         \* entries of the mapping handed to the normalizer

(***************************************************************************)
(* The filename pattern of load_data, matched the way a backtracking       *)
(* engine matches it: alternatives in pattern order, greedy repeats from   *)
(* the longest run down, lazy repeats from zero iterations up.  Positions  *)
(* are 1-based; an end position is exclusive; 0 means "no match".          *)
(***************************************************************************)
Digit == {"0", "1", "2", "3", "4", "5", "6", "7", "8", "9"}

Fail == [ok |-> FALSE]

Lit(s, i, w) ==
    IF i + Len(w) - 1 <= Len(s) /\ \A k \in 1..Len(w) : s[i + k - 1] = w[k]
    THEN i + Len(w)
    ELSE 0

RECURSIVE DigitRunEnd(_, _)
DigitRunEnd(s, i) ==
    IF i <= Len(s) /\ s[i] \in Digit THEN DigitRunEnd(s, i + 1) ELSE i

RECURSIVE TokenRunEnd(_, _)
TokenRunEnd(s, i) ==
    IF i <= Len(s) /\ s[i] /= "_" THEN TokenRunEnd(s, i + 1) ELSE i

\* "d" stands for \d, every other entry for itself
DateShape == <<"_", "d", "d", "d", "d", "-", "d", "d", "-", "d", "d",
               "_", "d", "d", "-", "d", "d", "-", "d", "d">>

\* _(?P<date>\d{4}-\d{2}-\d{2}_\d{2}-\d{2}-\d{2})$ at position i
DateAt(s, i) ==
    /\ Len(s) = i + Len(DateShape) - 1
    /\ \A k \in 1..Len(DateShape) :
          IF DateShape[k] = "d" THEN s[i + k - 1] \in Digit
                                ELSE s[i + k - 1] = DateShape[k]

\* the first alternative that matches: r if it matched, else alt
OrElse(r, alt) == IF r.ok THEN r ELSE alt

\* the first position that matches: d if it is one, else alt
NonZeroOr(d, alt) == IF d /= 0 THEN d ELSE alt

\* a match r with the positions of one more group
With(r, extra) == IF r.ok THEN r @@ extra ELSE r

\* the measure ends at k and the date starts at d, if it does start
Found(d, k) == IF d /= 0 THEN [ok |-> TRUE, mend |-> k, dstart |-> d] ELSE Fail

\* (?:_[^_]+)*? _ date $ at position i: the start of the date, or 0
RECURSIVE TailAt(_, _)
RECURSIVE TailRun(_, _, _)
TailAt(s, i) ==
    IF DateAt(s, i) THEN i + 1
    ELSE IF i <= Len(s) /\ s[i] = "_" THEN TailRun(s, i + 1, TokenRunEnd(s, i + 1))
    ELSE 0

\* [^_]+ ending at j, j from the longest run down
TailRun(s, lo, j) ==
    IF j <= lo THEN 0 ELSE NonZeroOr(TailAt(s, j), TailRun(s, lo, j - 1))

\* the digits of _b\d+ ending at k, k from the longest run down
RECURSIVE BDigits(_, _, _)
BDigits(s, lo, k) ==
    IF k <= lo THEN Fail ELSE OrElse(Found(TailAt(s, k), k), BDigits(s, lo, k - 1))

\* _b\d+ whose b ends at b, when the literal matched
BSuffix(s, b) == IF b /= 0 THEN BDigits(s, b, DigitRunEnd(s, b)) ELSE Fail

\* (?:_b\d+)? after a measure ending at j: greedy, so the suffix is tried first
OptB(s, j) == OrElse(BSuffix(s, Lit(s, j, <<"_", "b">>)), Found(TailAt(s, j), j))

\* the digits of meas\d+ or vr\d+ ending at j, j from the longest run down
RECURSIVE MeasDigits(_, _, _)
MeasDigits(s, lo, j) ==
    IF j <= lo THEN Fail ELSE OrElse(OptB(s, j), MeasDigits(s, lo, j - 1))

MeasWord == <<"m", "e", "a", "s">>
VrWord == <<"v", "r">>

\* \d+ after the word that ends at p, when the word matched
AfterWord(s, p) == IF p /= 0 THEN MeasDigits(s, p, DigitRunEnd(s, p)) ELSE Fail

\* (?P<measure>(?:meas\d+|vr\d+)(?:_b\d+)?) and the rest of the pattern at i
MeasureAt(s, i) ==
    OrElse(AfterWord(s, Lit(s, i, MeasWord)), AfterWord(s, Lit(s, i, VrWord)))

RECURSIVE Pre(_, _)
RECURSIVE PreRun(_, _, _)
\* a greedy (?:_[^_]+)* in place of the lazy one: qualifier tokens are consumed first
Pre_greedy(s, i) ==
    IF i <= Len(s) /\ s[i] = "_"
    THEN OrElse(PreRun(s, i + 1, TokenRunEnd(s, i + 1)),
                With(MeasureAt(s, i + 1), [mstart |-> i + 1]))
    ELSE Fail

\* (?:_[^_]+)*? _ measure ... at position i, right after tyre\d+: lazy, so the
\* measure is tried before another qualifier token is consumed
Pre(s, i) ==
    IF i <= Len(s) /\ s[i] = "_"
    THEN OrElse(With(MeasureAt(s, i + 1), [mstart |-> i + 1]),
                PreRun(s, i + 1, TokenRunEnd(s, i + 1)))
    ELSE Fail

\* [^_]+ ending at j, j from the longest run down
PreRun(s, lo, j) ==
    IF j <= lo THEN Fail ELSE OrElse(Pre(s, j), PreRun(s, lo, j - 1))

TyreWord == <<"t", "y", "r", "e">>
TrackWord == <<"t", "r", "a", "c", "k">>

\* the digits of tyre(?P<tyre>\d+) ending at j, j from the longest run down
RECURSIVE TyreDigits(_, _, _)
TyreDigits(s, lo, j) ==
    IF j <= lo THEN Fail
    ELSE OrElse(With(Pre(s, j), [ystart |-> lo, yend |-> j]), TyreDigits(s, lo, j - 1))

\* \d+ after _tyre ending at y, when the literal matched
TyreAt(s, y) == IF y /= 0 THEN TyreDigits(s, y, DigitRunEnd(s, y)) ELSE Fail

\* (?P<vehicle>[^_]+)_tyre... with the vehicle ending at j, j from the longest run down
RECURSIVE VehicleRun(_, _, _)
VehicleRun(s, lo, j) ==
    IF j <= lo THEN Fail
    ELSE OrElse(With(TyreAt(s, Lit(s, j, <<"_">> \o TyreWord)), [vstart |-> lo, vend |-> j]),
                VehicleRun(s, lo, j - 1))

\* [^_]+ after the _ ending at u, when the literal matched
VehicleAt(s, u) == IF u /= 0 THEN VehicleRun(s, u, TokenRunEnd(s, u)) ELSE Fail

\* the digits of ^track(?P<track>\d+)_ ending at j, j from the longest run down
RECURSIVE TrackDigits(_, _, _)
TrackDigits(s, lo, j) ==
    IF j <= lo THEN Fail
    ELSE OrElse(With(VehicleAt(s, Lit(s, j, <<"_">>)), [tstart |-> lo, tend |-> j]),
                TrackDigits(s, lo, j - 1))

\* \d+ after ^track ending at t, when the literal matched
TrackAt(s, t) == IF t /= 0 THEN TrackDigits(s, t, DigitRunEnd(s, t)) ELSE Fail

\* m.groupdict() of a match r, with the start of the measure group
groupdict(s, r) ==
    IF r.ok
    THEN [ok |-> TRUE,
          track |-> SubSeq(s, r.tstart, r.tend - 1),
          vehicle |-> SubSeq(s, r.vstart, r.vend - 1),
          tyre |-> SubSeq(s, r.ystart, r.yend - 1),
          measure |-> SubSeq(s, r.mstart, r.mend - 1),
          date |-> SubSeq(s, r.dstart, Len(s)),
          mstart |-> r.mstart]
    ELSE Fail

\* pattern.match(stem): the groups of the match, or Fail
pattern(s) == groupdict(s, TrackAt(s, Lit(s, 1, TrackWord)))

(***************************************************************************)
(* int(...) and datetime.strptime(..., "%Y-%m-%d_%H-%M-%S")                *)
(***************************************************************************)
DigitValue(c) ==
    CASE c = "0" -> 0 [] c = "1" -> 1 [] c = "2" -> 2 [] c = "3" -> 3 [] c = "4" -> 4
      [] c = "5" -> 5 [] c = "6" -> 6 [] c = "7" -> 7 [] c = "8" -> 8 [] c = "9" -> 9

RECURSIVE int(_)
int(ds) ==
    IF ds = <<>> THEN 0
    ELSE 10 * int(SubSeq(ds, 1, Len(ds) - 1)) + DigitValue(ds[Len(ds)])

IsLeap(y) == (y % 4 = 0 /\ y % 100 /= 0) \/ y % 400 = 0

DaysIn(y, m) ==
    IF m = 2 THEN (IF IsLeap(y) THEN 29 ELSE 28)
    ELSE IF m \in {4, 6, 9, 11} THEN 30 ELSE 31

\* the datetime of a date group, or Fail where strptime raises ValueError
strptime(d) ==
    LET year == int(SubSeq(d, 1, 4))
        month == int(SubSeq(d, 6, 7))
        day == int(SubSeq(d, 9, 10))
        hour == int(SubSeq(d, 12, 13))
        minute == int(SubSeq(d, 15, 16))
        second == int(SubSeq(d, 18, 19))
    IN  IF /\ year >= 1
           /\ month \in 1..12
           /\ day \in 1..DaysIn(year, month)
           /\ hour <= 23 /\ minute <= 59 /\ second <= 59
        THEN [ok |-> TRUE, year |-> year, month |-> month, day |-> day,
              hour |-> hour, minute |-> minute, second |-> second]
        ELSE Fail

\* the dict returned for the groups m and the datetime date
record(path, stem, m, date) ==
    IF date.ok
    THEN [ok |-> TRUE,
          value |-> [file_path |-> path,
                     file_stem |-> stem,
                     vehicle |-> m.vehicle,
                     tyre_ID |-> int(m.tyre),
                     track_ID |-> int(m.track),
                     measure |-> m.measure,
                     date |-> [year |-> date.year, month |-> date.month,
                               day |-> date.day, hour |-> date.hour,
                               minute |-> date.minute, second |-> date.second]]]
    ELSE Fail

\* what follows  m = pattern.match(stem)
parse_match(path, stem, m) ==
    IF m.ok THEN record(path, stem, m, strptime(m.date)) ELSE Fail

\* _parse_filename: the record of one file, or Fail where it raises ValueError
\* (the stem does not match, or strptime rejects the date group)
_parse_filename(path, stem) == parse_match(path, stem, pattern(stem))

(***************************************************************************)
(* Filename stems.  A stem is the "_"-join of a head (track, vehicle and   *)
(* tyre tokens, or something else), up to MaxMiddle middle tokens and a    *)
(* tail (a date and a time token, or something else).                      *)
(***************************************************************************)
tk_track211 == <<"t", "r", "a", "c", "k", "2", "1", "1">>
tk_ID4 == <<"I", "D", ".", "4">>
tk_tyre3 == <<"t", "y", "r", "e", "3">>
tk_tyre == <<"t", "y", "r", "e">>
tk_2pt6 == <<"2", "p", "t", "6">>
tk_vr45 == <<"v", "r", "4", "5">>
tk_b50 == <<"b", "5", "0">>
tk_meas3 == <<"m", "e", "a", "s", "3">>
tk_xvr5 == <<"x", "v", "r", "5">>
tk_meas3x == <<"m", "e", "a", "s", "3", "x">>
tk_day == <<"2", "0", "2", "5", "-", "0", "7", "-", "1", "1">>
tk_time == <<"1", "0", "-", "2", "4", "-", "2", "8">>
tk_badday == <<"2", "0", "2", "5", "-", "0", "2", "-", "3", "0">>
tk_random == <<"r", "a", "n", "d", "o", "m">>
tk_file == <<"f", "i", "l", "e">>
tk_empty == <<>>

Heads == {<<tk_track211, tk_ID4, tk_tyre3>>,      \* track211_ID.4_tyre3
          <<tk_track211, tk_meas3, tk_tyre3>>,    \* a vehicle called meas3
          <<tk_track211, tk_ID4, tk_tyre>>,       \* tyre token without digits
          <<tk_random>>}

MiddleTokens == {tk_2pt6, tk_vr45, tk_b50, tk_meas3, tk_xvr5, tk_meas3x, tk_empty}

Tails == {<<tk_day, tk_time>>,       \* 2025-07-11_10-24-28
          <<tk_badday, tk_time>>,    \* 2025-02-30_10-24-28: no such day
          <<tk_file>>}

RECURSIVE Join(_)
Join(toks) ==
    IF toks = <<>> THEN <<>>
    ELSE IF Len(toks) = 1 THEN toks[1]
    ELSE toks[1] \o <<"_">> \o Join(SubSeq(toks, 2, Len(toks)))

SeqsUpTo(S, n) == UNION {[1..k -> S] : k \in 0..n}

Stems == {Join(h \o m \o t) : h \in Heads, m \in SeqsUpTo(MiddleTokens, MaxMiddle), t \in Tails}

\* the stems of the directories scanned with several files
CatalogStems ==
    {Join(<<tk_track211, tk_ID4, tk_tyre3, tk_2pt6, tk_vr45, tk_day, tk_time>>),
     Join(<<tk_track211, tk_ID4, tk_tyre3, tk_meas3, tk_2pt6, tk_day, tk_time>>),
     Join(<<tk_track211, tk_ID4, tk_tyre3, tk_vr45, tk_badday, tk_time>>),
     Join(<<tk_random, tk_file>>)}

(***************************************************************************)
(* Idle values of the variables of the calls a specification leaves out    *)
(***************************************************************************)
LoadIdle == h5_files = <<>> /\ parsed = <<>> /\ df = None
MapIdle == table = <<>> /\ syn = 0 /\ row = 0 /\ syn_dict = <<>>
H5Idle ==
    /\ h5 = <<>> /\ mapping = <<>> /\ mode = None /\ handle = "none"
    /\ keys_to_rename = <<>> /\ outcome = <<>> /\ target_seen = <<>>
    /\ h5_before = <<>> /\ h5_pass1 = <<>> /\ pass = 0
    /\ channel_name = None /\ result = None

(***************************************************************************)
(* load_data                                                               *)
(***************************************************************************)
\* h5_files = list(data_dir.rglob("*.h5")): one file from the generated stems,
\* or up to MaxFiles files from CatalogStems; file i has path i
InitLoad ==
    /\ pc = "load_parse"
    /\ h5_files \in {<<s>> : s \in Stems} \cup SeqsUpTo(CatalogStems, MaxFiles)
    /\ parsed = <<>>
    /\ df = None
    /\ MapIdle /\ H5Idle

\* a best-effort step: a file that does not parse yields a partial record
ParseFile_partial ==
    /\ pc = "load_parse"
    /\ Len(parsed) < Len(h5_files)
    /\ LET i == Len(parsed) + 1
           r == _parse_filename(i, h5_files[i])
       IN  parsed' = Append(parsed, IF r.ok THEN r.value
                                    ELSE [file_path |-> i, file_stem |-> h5_files[i]])
    /\ pc' = pc
    /\ UNCHANGED <<h5_files, df, map_vars, h5_vars>>

\* one step of  parsed = [_parse_filename(f) for f in h5_files]
ParseFile ==
    /\ pc = "load_parse"
    /\ Len(parsed) < Len(h5_files)
    /\ LET i == Len(parsed) + 1
           r == _parse_filename(i, h5_files[i])
       IN  IF r.ok
           THEN parsed' = Append(parsed, r.value) /\ pc' = pc
           ELSE parsed' = parsed /\ pc' = "load_raised"
    /\ UNCHANGED <<h5_files, df, map_vars, h5_vars>>

\* df = pl.DataFrame(parsed); return df
BuildFrame ==
    /\ pc = "load_parse"
    /\ Len(parsed) = Len(h5_files)
    /\ df' = parsed
    /\ pc' = "load_returned"
    /\ UNCHANGED <<h5_files, parsed, map_vars, h5_vars>>

NextLoad == ParseFile \/ BuildFrame

SpecLoad == InitLoad /\ [][NextLoad]_vars

(***************************************************************************)
(* Properties of load_data                                                 *)
(***************************************************************************)
\* the "_"-separated tokens of a stem
RECURSIVE Split(_)
Split(s) ==
    LET e == TokenRunEnd(s, 1)
    IN  IF e > Len(s) THEN <<s>>
        ELSE <<SubSeq(s, 1, e - 1)>> \o Split(SubSeq(s, e + 1, Len(s)))

\* the token t is the word w followed by one or more digits and nothing else
IsWord(t, w) ==
    /\ Len(t) > Len(w)
    /\ SubSeq(t, 1, Len(w)) = w
    /\ \A k \in (Len(w) + 1)..Len(t) : t[k] \in Digit

IsMeasTok(t) == IsWord(t, MeasWord) \/ IsWord(t, VrWord)
IsBTok(t) == IsWord(t, <<"b">>)

Min(S) == CHOOSE x \in S : \A y \in S : x <= y

\* the positions of a stem at which meas<digit> or vr<digit> begins
Occurrences(s) ==
    {p \in 1..Len(s) :
        \/ Lit(s, p, MeasWord) /= 0 /\ DigitRunEnd(s, p + 4) > p + 4
        \/ Lit(s, p, VrWord) /= 0 /\ DigitRunEnd(s, p + 2) > p + 2}

\* the indexes, after the tyre token, of the tokens that are meas<digits> or vr<digits>
MeasTokens(toks) == {k \in 4..Len(toks) : IsMeasTok(toks[k])}

ExpectedMeasure(toks) ==
    LET k == Min(MeasTokens(toks))
    IN  IF k < Len(toks) /\ IsBTok(toks[k + 1])
        THEN toks[k] \o <<"_">> \o toks[k + 1]
        ELSE toks[k]

Accepts(stem) == pattern(stem).ok /\ strptime(pattern(stem).date).ok

C9_MeasureIsFirstSubstring ==
    \A i \in 1..Len(parsed) :
        pattern(parsed[i].file_stem).mstart = Min(Occurrences(parsed[i].file_stem))

\* C9 (amended): the measure of an accepted stem is the first whole token after
\* the tyre token that is meas<digits> or vr<digits>, together with a directly
\* following b<digits> token.
C9_MeasureIsFirstToken ==
    \A i \in 1..Len(parsed) :
        LET toks == Split(parsed[i].file_stem)
        IN  /\ MeasTokens(toks) /= {}
            /\ parsed[i].measure = ExpectedMeasure(toks)

\* an accepted stem with several measure tokens after the tyre token
C9_Witness ==
    \E i \in 1..Len(parsed) :
        LET toks == Split(parsed[i].file_stem)
        IN  /\ Cardinality(MeasTokens(toks)) >= 2
            /\ parsed[i].measure = toks[Min(MeasTokens(toks))]

\* C10: the measure of an accepted stem is meas<digits>, or vr<digits> with an
\* optional _b<digits>; a meas measure never carries a _b<digits> suffix.
C10_MeasureShape ==
    \A i \in 1..Len(parsed) :
        LET m == Split(parsed[i].measure)
        IN  \/ Len(m) = 1 /\ IsMeasTok(m[1])
            \/ Len(m) = 2 /\ IsWord(m[1], VrWord) /\ IsBTok(m[2])

(***************************************************************************)
(* get_channel_mapping_dict                                                *)
(***************************************************************************)
ChannelNames == {"NAWSSound", "Acc"}

\* cells of a synonym column: null, two ordinary synonyms, and a synonym that
\* reads like the header of the first synonym column
SynonymCells == {None, "Mic", "Snd", "synonym_1"}

Rows == [channel_name : ChannelNames, synonym_1 : SynonymCells, synonym_2 : SynonymCells]

Column(c) == IF c = 1 THEN "synonym_1" ELSE "synonym_2"

\* df.filter(pl.col(syn).is_not_null()).select(["channel_name", syn]).to_dicts()
dicts(c) ==
    LET NotNull(r) == r[Column(c)] /= None
        kept == SelectSeq(table, NotNull)
    IN  [i \in 1..Len(kept) |->
            [k \in {"channel_name", Column(c)} |-> kept[i][k]]]

\* df = pl.read_csv(mapping_file); syn_dict = {}
InitMap ==
    /\ pc = "map_build"
    /\ table \in SeqsUpTo(Rows, MaxRows)
    /\ syn = 1
    /\ row = 0
    /\ syn_dict = <<>>
    /\ LoadIdle /\ H5Idle

\* one step of  for d in dicts: raise KeyError if d[syn] in d, else insert
InsertSynonym ==
    /\ pc = "map_build"
    /\ row < Len(dicts(syn))
    /\ LET d == dicts(syn)[row + 1]
           synonym == d[Column(syn)]
       IN  IF synonym \in DOMAIN d
           THEN pc' = "map_raised" /\ UNCHANGED <<row, syn_dict>>
           ELSE /\ syn_dict' = [k \in DOMAIN syn_dict \cup {synonym} |->
                                   IF k = synonym THEN d["channel_name"] ELSE syn_dict[k]]
                /\ row' = row + 1
                /\ pc' = pc
    /\ UNCHANGED <<table, syn, load_vars, h5_vars>>

\* the end of the rows of synonym_1: the outer loop turns to synonym_2
NextColumn ==
    /\ pc = "map_build"
    /\ syn = 1
    /\ row = Len(dicts(syn))
    /\ syn' = 2
    /\ row' = 0
    /\ UNCHANGED <<pc, table, syn_dict, load_vars, h5_vars>>

\* return syn_dict
ReturnMapping ==
    /\ pc = "map_build"
    /\ syn = 2
    /\ row = Len(dicts(syn))
    /\ pc' = "map_returned"
    /\ UNCHANGED <<table, syn, row, syn_dict, load_vars, h5_vars>>

NextMap == InsertSynonym \/ NextColumn \/ ReturnMapping

SpecMap == InitMap /\ [][NextMap]_vars

\* the non-null synonym cells of the table, as <<row, column>>
SynonymEntries ==
    {e \in (1..Len(table)) \X {1, 2} : table[e[1]][Column(e[2])] /= None}

\* C1: a mapping is returned only when every synonym value is unique across
\* both synonym columns and all rows; a repeated synonym makes construction fail.
C1_StrictConstruction ==
    pc = "map_returned" =>
        \A e1, e2 \in SynonymEntries :
            e1[1] /= e2[1] => table[e1[1]][Column(e1[2])] /= table[e2[1]][Column(e2[2])]

(***************************************************************************)
(* Measurement files                                                       *)
(***************************************************************************)
Names == 1..NumNames

\* the layouts of a dataset: the shape of the payload and the form of the
\* sample_rate attribute
Layouts == <<[shape |-> <<2>>, rate |-> "absent"],
             [shape |-> <<1, 2>>, rate |-> "ndarray"],
             [shape |-> <<2, 1>>, rate |-> "scalar"],
             [shape |-> <<2, 2>>, rate |-> "absent"]>>

\* the channels are laid out in turn: 1-D, one row, one column, matrix
LayoutOf(n) == Layouts[((n - 1) % Len(Layouts)) + 1]

\* the samples recorded on channel n: no two channels hold the same samples
Samples(n, count) == [i \in 1..count |-> 10 * n + i]

\* the dataset recorded on channel n: an array (shape and row-major buffer) and
\* its attributes
Dataset(n) ==
    LET layout == LayoutOf(n)
    IN  [data |-> [shape |-> layout.shape,
                   flat |-> Samples(n, IF Len(layout.shape) = 1 THEN layout.shape[1]
                                       ELSE layout.shape[1] * layout.shape[2])],
         attrs |-> IF layout.rate = "absent" THEN <<>>
                   ELSE [a \in {"sample_rate"} |-> [kind |-> layout.rate, value |-> 48000]]]

H5Files == {[n \in present |-> Dataset(n)] : present \in SUBSET Names}

\* the dicts from channel names to channel names with at most MaxKeys entries
Mappings ==
    UNION {[keys -> Names] : keys \in {K \in SUBSET Names : Cardinality(K) <= MaxKeys}}

RECURSIVE sorted(_)
sorted(S) ==
    IF S = {} THEN <<>>
    ELSE LET m == CHOOSE x \in S : \A y \in S : x <= y
         IN  <<m>> \o sorted(S \ {m})

\* h5_file.copy(old_name, new_name); del h5_file[old_name]
renamed(f, old_name, new_name) ==
    [n \in (DOMAIN f \ {old_name}) \cup {new_name} |->
        IF n = new_name THEN f[old_name] ELSE f[n]]

\* h5_file.copy(old_name, new_name) alone
copied(f, old_name, new_name) ==
    [n \in DOMAIN f \cup {new_name} |-> IF n = new_name THEN f[old_name] ELSE f[n]]

\* h5_file.copy raises: the source is missing or the destination exists
copy_raises(f, old_name, new_name) ==
    old_name \notin DOMAIN f \/ new_name \in DOMAIN f

(***************************************************************************)
(* load_h5_fix_channel_names                                               *)
(***************************************************************************)
\* h5_file = h5py.File(file_path, "r+")
OpenReadWrite ==
    /\ pc = "fix_open"
    /\ handle' = "open"
    /\ pc' = "fix_list"
    /\ UNCHANGED <<h5, mapping, mode, keys_to_rename, outcome, target_seen,
                   h5_before, h5_pass1, pass, channel_name, result, load_vars, map_vars>>

\* keys_to_rename = [key for key in h5_file.keys() if key in mapping]
ListKeys ==
    /\ pc = "fix_list"
    /\ keys_to_rename' = sorted(DOMAIN h5 \cap DOMAIN mapping)
    /\ outcome' = <<>>
    /\ target_seen' = <<>>
    /\ pc' = "fix_loop"
    /\ UNCHANGED <<h5, mapping, mode, handle, h5_before, h5_pass1, pass,
                   channel_name, result, load_vars, map_vars>>

\* the except clause re-raising instead of passing
RenameKey_abort ==
    /\ pc = "fix_loop"
    /\ keys_to_rename /= <<>>
    /\ LET old_name == Head(keys_to_rename)
           new_name == mapping[old_name]
       IN  /\ target_seen' = [k \in DOMAIN target_seen \cup {old_name} |->
                                 IF k = old_name THEN new_name \in DOMAIN h5
                                 ELSE target_seen[k]]
           /\ IF copy_raises(h5, old_name, new_name)
              THEN /\ h5' = h5
                   /\ pc' = "fix_raised"
                   /\ outcome' = [k \in DOMAIN outcome \cup {old_name} |->
                                    IF k = old_name THEN "skipped" ELSE outcome[k]]
              ELSE /\ h5' = renamed(h5, old_name, new_name)
                   /\ pc' = pc
                   /\ outcome' = [k \in DOMAIN outcome \cup {old_name} |->
                                    IF k = old_name THEN "renamed" ELSE outcome[k]]
    /\ keys_to_rename' = Tail(keys_to_rename)
    /\ UNCHANGED <<mapping, mode, handle, h5_before, h5_pass1, pass,
                   channel_name, result, load_vars, map_vars>>

\* a copy that replaces an existing destination instead of raising
RenameKey_overwrite ==
    /\ pc = "fix_loop"
    /\ keys_to_rename /= <<>>
    /\ LET old_name == Head(keys_to_rename)
           new_name == mapping[old_name]
       IN  /\ target_seen' = [k \in DOMAIN target_seen \cup {old_name} |->
                                 IF k = old_name THEN new_name \in DOMAIN h5
                                 ELSE target_seen[k]]
           /\ h5' = IF old_name = new_name THEN h5 ELSE renamed(h5, old_name, new_name)
           /\ outcome' = [k \in DOMAIN outcome \cup {old_name} |->
                            IF k = old_name THEN "renamed" ELSE outcome[k]]
    /\ keys_to_rename' = Tail(keys_to_rename)
    /\ pc' = pc
    /\ UNCHANGED <<mapping, mode, handle, h5_before, h5_pass1, pass,
                   channel_name, result, load_vars, map_vars>>

\* a loop that ends after its first successful rename
RenameKey_once ==
    /\ pc = "fix_loop"
    /\ keys_to_rename /= <<>>
    /\ LET old_name == Head(keys_to_rename)
           new_name == mapping[old_name]
       IN  /\ target_seen' = [k \in DOMAIN target_seen \cup {old_name} |->
                                 IF k = old_name THEN new_name \in DOMAIN h5
                                 ELSE target_seen[k]]
           /\ IF copy_raises(h5, old_name, new_name)
              THEN /\ h5' = h5
                   /\ keys_to_rename' = Tail(keys_to_rename)
                   /\ outcome' = [k \in DOMAIN outcome \cup {old_name} |->
                                    IF k = old_name THEN "skipped" ELSE outcome[k]]
              ELSE /\ h5' = renamed(h5, old_name, new_name)
                   /\ keys_to_rename' = <<>>
                   /\ outcome' = [k \in DOMAIN outcome \cup {old_name} |->
                                    IF k = old_name THEN "renamed" ELSE outcome[k]]
    /\ pc' = pc
    /\ UNCHANGED <<mapping, mode, handle, h5_before, h5_pass1, pass,
                   channel_name, result, load_vars, map_vars>>

\* one iteration of  for old_name in keys_to_rename: the copy and the delete, or
\* the except clause when the copy raises
RenameKey ==
    /\ pc = "fix_loop"
    /\ keys_to_rename /= <<>>
    /\ LET old_name == Head(keys_to_rename)
           new_name == mapping[old_name]
       IN  /\ target_seen' = [k \in DOMAIN target_seen \cup {old_name} |->
                                 IF k = old_name THEN new_name \in DOMAIN h5
                                 ELSE target_seen[k]]
           /\ IF copy_raises(h5, old_name, new_name)
              THEN /\ h5' = h5
                   /\ outcome' = [k \in DOMAIN outcome \cup {old_name} |->
                                    IF k = old_name THEN "skipped" ELSE outcome[k]]
              ELSE /\ h5' = renamed(h5, old_name, new_name)
                   /\ outcome' = [k \in DOMAIN outcome \cup {old_name} |->
                                    IF k = old_name THEN "renamed" ELSE outcome[k]]
    /\ keys_to_rename' = Tail(keys_to_rename)
    /\ pc' = pc
    /\ UNCHANGED <<mapping, mode, handle, h5_before, h5_pass1, pass,
                   channel_name, result, load_vars, map_vars>>

\* return h5_file
FixReturn ==
    /\ pc = "fix_loop"
    /\ keys_to_rename = <<>>
    /\ pc' = "fix_returned"
    /\ UNCHANGED <<h5_vars, load_vars, map_vars>>

\* an exception leaves load_h5_fix_channel_names: one raised while the keys are
\* listed (line 109 is outside the try), or one in the loop that is not an
\* Exception (KeyboardInterrupt), before the copy or between copy and delete.
\* Nothing closes h5_file on this path.
FixRaises ==
    /\ \/ pc = "fix_list" /\ h5' = h5
       \/ pc = "fix_loop" /\ keys_to_rename /= <<>> /\ h5' = h5
       \/ /\ pc = "fix_loop" /\ keys_to_rename /= <<>>
          /\ ~copy_raises(h5, Head(keys_to_rename), mapping[Head(keys_to_rename)])
          /\ h5' = copied(h5, Head(keys_to_rename), mapping[Head(keys_to_rename)])
    /\ pc' = "fix_raised"
    /\ UNCHANGED <<mapping, mode, handle, keys_to_rename, outcome, target_seen,
                   h5_before, h5_pass1, pass, channel_name, result, load_vars, map_vars>>

\* the caller of a direct call closes the returned file; after the first pass
\* it calls load_h5_fix_channel_names again with the same mapping
CloseReturned ==
    /\ pc = "fix_returned"
    /\ handle' = "closed"
    /\ IF pass = 1
       THEN h5_pass1' = h5 /\ pass' = 2 /\ pc' = "fix_open"
       ELSE h5_pass1' = h5_pass1 /\ pass' = pass /\ pc' = "fix_done"
    /\ UNCHANGED <<h5, mapping, mode, keys_to_rename, outcome, target_seen,
                   h5_before, channel_name, result, load_vars, map_vars>>

\* two calls in a row of load_h5_fix_channel_names(file_path, mapping)
InitFix ==
    /\ pc = "fix_open"
    /\ h5 \in H5Files
    /\ mapping \in Mappings
    /\ h5_before = h5
    /\ h5_pass1 = <<>>
    /\ pass = 1
    /\ mode = None /\ handle = "none" /\ keys_to_rename = <<>>
    /\ outcome = <<>> /\ target_seen = <<>>
    /\ channel_name = None /\ result = None
    /\ LoadIdle /\ MapIdle

NextFix ==
    \/ OpenReadWrite
    \/ ListKeys
    \/ RenameKey
    \/ FixReturn
    \/ FixRaises
    \/ CloseReturned

SpecFix == InitFix /\ [][NextFix]_vars

(***************************************************************************)
(* Properties of load_h5_fix_channel_names                                 *)
(***************************************************************************)
\* the file as it was when the running call began
AtCallStart == IF pass = 2 THEN h5_pass1 ELSE h5_before

\* the channels of the file at the start of the call that bear a legacy name
LegacyKeys == DOMAIN AtCallStart \cap DOMAIN mapping

\* no canonical name of the mapping is a legacy key of another entry
NoChain == \A k \in DOMAIN mapping : mapping[k] \in DOMAIN mapping => mapping[k] = k

\* C3 (as stated): for every mapping, the file after the second pass equals the
\* file after the first pass.
C3_IdempotentForEveryMapping ==
    pc = "fix_done" => h5 = h5_pass1

\* C3 (amended): when no canonical name of the mapping is a legacy key of
\* another entry, the file after the second pass equals the file after the
\* first pass: same channel names, same payload and attributes under each.
C3_IdempotentWithoutChains ==
    (pc = "fix_done" /\ NoChain) => h5 = h5_pass1

\* both passes ran, the first renamed a channel and a rename was skipped
C3_Witness ==
    /\ pc = "fix_done" /\ NoChain
    /\ h5_pass1 /= h5_before
    /\ \E k \in DOMAIN outcome : outcome[k] = "skipped"
    /\ h5 = h5_pass1

\* C5: after a call every channel of the file exists under exactly one name,
\* its original name or the canonical name its original name maps to, with the
\* payload and attributes it had; the number of channels is unchanged.
C5_OnlyNamesChange ==
    pc = "fix_returned" =>
        /\ Cardinality(DOMAIN h5) = Cardinality(DOMAIN AtCallStart)
        /\ \A k \in DOMAIN AtCallStart :
              LET holders == {n \in DOMAIN h5 : h5[n] = AtCallStart[k]}
              IN  /\ Cardinality(holders) = 1
                  /\ holders \subseteq
                        {k} \cup (IF k \in DOMAIN mapping THEN {mapping[k]} ELSE {})

\* two legacy keys of the file map to one canonical name: one was renamed, the
\* other kept its name
C5_Witness ==
    /\ pc = "fix_returned"
    /\ \E k1, k2 \in LegacyKeys :
          /\ k1 /= k2 /\ mapping[k1] = mapping[k2]
          /\ outcome[k1] = "renamed" /\ outcome[k2] = "skipped"
          /\ h5[mapping[k1]] = AtCallStart[k1] /\ h5[k2] = AtCallStart[k2]

\* what a returned call has done to the legacy key k
Settled(k) ==
    /\ k \in DOMAIN outcome
    /\ IF target_seen[k]
       THEN outcome[k] = "skipped" /\ k \in DOMAIN h5 /\ h5[k] = AtCallStart[k]
       ELSE /\ outcome[k] = "renamed"
            /\ mapping[k] \in DOMAIN h5 /\ h5[mapping[k]] = AtCallStart[k]

Modes == {"r", "r+", "a", "w"}

\* a wrapper that normalizes in every mode that reads an existing file
Enter_always ==
    /\ pc = "with_enter"
    /\ IF mode \in {"r", "r+", "a"}
       THEN pc' = "fix_open" /\ UNCHANGED <<h5, handle>>
       ELSE /\ handle' = "open"
            /\ h5' = IF mode = "w" THEN <<>> ELSE h5
            /\ pc' = "body"
    /\ UNCHANGED <<mapping, mode, keys_to_rename, outcome, target_seen, h5_before,
                   h5_pass1, pass, channel_name, result, load_vars, map_vars>>

\* if mode in ("r+", "a"): h5_file = load_h5_fix_channel_names(file_path, mapping)
\* else: h5_file = h5py.File(file_path, mode), which truncates the file in mode "w"
Enter ==
    /\ pc = "with_enter"
    /\ IF mode \in {"r+", "a"}
       THEN pc' = "fix_open" /\ UNCHANGED <<h5, handle>>
       ELSE /\ handle' = "open"
            /\ h5' = IF mode = "w" THEN <<>> ELSE h5
            /\ pc' = "body"
    /\ UNCHANGED <<mapping, mode, keys_to_rename, outcome, target_seen, h5_before,
                   h5_pass1, pass, channel_name, result, load_vars, map_vars>>

\* try: yield h5_file, after load_h5_fix_channel_names has returned
Yield ==
    /\ pc = "fix_returned"
    /\ pc' = "body"
    /\ UNCHANGED <<h5_vars, load_vars, map_vars>>

\* the caller's with block: it completes, or an exception leaves it
Body ==
    /\ pc = "body"
    /\ pc' \in {"finally_normal", "finally_exception"}
    /\ UNCHANGED <<h5_vars, load_vars, map_vars>>

\* finally: h5_file.close()
Close ==
    /\ pc \in {"finally_normal", "finally_exception"}
    /\ handle' = "closed"
    /\ pc' = IF pc = "finally_normal" THEN "with_exit" ELSE "with_raised"
    /\ UNCHANGED <<h5, mapping, mode, keys_to_rename, outcome, target_seen, h5_before,
                   h5_pass1, pass, channel_name, result, load_vars, map_vars>>

\* with h5_with_fixed_channels(file_path, mapping, mode) as f: ...
InitScoped ==
    /\ pc = "with_enter"
    /\ h5 \in H5Files
    /\ mapping \in Mappings
    /\ mode \in Modes
    /\ h5_before = h5
    /\ h5_pass1 = <<>>
    /\ pass = 1
    /\ handle = "none" /\ keys_to_rename = <<>>
    /\ outcome = <<>> /\ target_seen = <<>>
    /\ channel_name = None /\ result = None
    /\ LoadIdle /\ MapIdle

NextScoped ==
    \/ Enter
    \/ OpenReadWrite
    \/ ListKeys
    \/ RenameKey
    \/ FixReturn
    \/ FixRaises
    \/ Yield
    \/ Body
    \/ Close

SpecScoped == InitScoped /\ [][NextScoped]_vars

\* the positions at which a use of h5_with_fixed_channels has ended
Exited == {"with_exit", "with_raised", "fix_raised"}

\* C2: no use of h5_with_fixed_channels ends with an opened handle left
\* unclosed, whether the block completes, the block raises, or an exception is
\* raised between the opening of the file and the yield.
C2_ClosedOnEveryExit ==
    pc \in Exited => handle /= "open"

\* C7: in mode "r" the file is never changed, from the call to the close, and
\* the normalizer runs only in the modes "r+" and "a".
C7_ReadOnlyLeavesFile ==
    /\ mode = "r" => h5 = h5_before
    /\ pc \in {"fix_open", "fix_list", "fix_loop", "fix_returned", "fix_raised"}
          => mode \in {"r+", "a"}

\* a read-only use has ended on a file with a legacy-named channel whose
\* canonical name is free
C7_Witness ==
    /\ mode = "r" /\ pc = "with_exit" /\ handle = "closed"
    /\ \E k \in DOMAIN h5 \cap DOMAIN mapping : mapping[k] \notin DOMAIN h5
    /\ h5 = h5_before

(***************************************************************************)
(* load_h5_channel                                                         *)
(***************************************************************************)
NoneNone == [is_none |-> TRUE]

\* data.flatten()
flatten(a) == [shape |-> <<Len(a.flat)>>, flat |-> a.flat]

\* the pair returned for a dataset: the payload, flattened when it is 2D with a
\* single row or column, and the sample_rate attribute, unwrapped when an array
read(ds) ==
    LET data == ds.data
        flat == IF Len(data.shape) = 2 /\ (data.shape[1] = 1 \/ data.shape[2] = 1)
                THEN flatten(data) ELSE data
        sample_rate == IF "sample_rate" \in DOMAIN ds.attrs
                       THEN ds.attrs["sample_rate"] ELSE [kind |-> "None"]
    IN  [is_none |-> FALSE,
         data |-> flat,
         sample_rate |-> IF sample_rate.kind = "ndarray"
                         THEN [kind |-> "scalar", value |-> sample_rate.value]
                         ELSE sample_rate]

\* a reader that looks the requested name up in the mapping first
ReadChannel_resolved ==
    /\ pc = "body"
    /\ LET name == IF channel_name \in DOMAIN mapping THEN mapping[channel_name]
                   ELSE channel_name
       IN  result' = IF name \in DOMAIN h5 THEN read(h5[name]) ELSE NoneNone
    /\ pc' = "finally_normal"
    /\ UNCHANGED <<h5, mapping, mode, handle, keys_to_rename, outcome, target_seen,
                   h5_before, h5_pass1, pass, channel_name, load_vars, map_vars>>

\* the with block of load_h5_channel: if channel_name in f: return data, sample_rate;
\* otherwise the function returns None, None after the block
ReadChannel ==
    /\ pc = "body"
    /\ result' = IF channel_name \in DOMAIN h5 THEN read(h5[channel_name]) ELSE NoneNone
    /\ pc' = "finally_normal"
    /\ UNCHANGED <<h5, mapping, mode, handle, keys_to_rename, outcome, target_seen,
                   h5_before, h5_pass1, pass, channel_name, load_vars, map_vars>>

\* load_h5_channel(file_path, mapping, channel_name)
InitChannel ==
    /\ pc = "with_enter"
    /\ h5 \in H5Files
    /\ mapping \in Mappings
    /\ mode = "r+"
    /\ channel_name \in Names
    /\ h5_before = h5
    /\ h5_pass1 = <<>>
    /\ pass = 1
    /\ handle = "none" /\ keys_to_rename = <<>>
    /\ outcome = <<>> /\ target_seen = <<>>
    /\ result = None
    /\ LoadIdle /\ MapIdle

NextChannel ==
    \/ Enter
    \/ OpenReadWrite
    \/ ListKeys
    \/ RenameKey
    \/ FixReturn
    \/ FixRaises
    \/ Yield
    \/ ReadChannel
    \/ Close

SpecChannel == InitChannel /\ [][NextChannel]_vars

====
